---- MODULE Spec2Model ----
(***************************************************************************)
(* Model of QuantumWeightModel (src/Quantum_Weight_Model_Example.py).      *)
(*                                                                         *)
(* Numbers.  The program computes with IEEE 754 doubles (Python float and   *)
(* np.float64), and so does the model: every sum, product and quotient is  *)
(* formed exactly and rounded to 53 bits, to nearest, ties to even.  No     *)
(* value is negative: coordinates enter only through the norm of their     *)
(* difference, and coherence values and coupling strengths are naturals.   *)
(* A number is the record                                                  *)
(*     [k |-> "fin", m, e]   standing for m * 2^e                          *)
(* or one of the two special doubles                                       *)
(*     [k |-> "inf", ...]   +infinity        [k |-> "nan", ...]   NaN      *)
(* with the IEEE rules for them (1/0 = inf, inf * 0 = nan, inf/inf = nan,  *)
(* x/inf = 0, every comparison with nan false).  A raised exception is the *)
(* record with k = "KeyError" or k = "TypeError".                          *)
(***************************************************************************)
EXTENDS Integers, Sequences, FiniteSets

VARIABLES
    qubit_layout,      \* self.qubit_layout : id -> coordinate vector
    coherence_map,     \* self.coherence_map : id -> coherence (or None)
    entanglement_map,  \* self.entanglement_map : <<q1, q2>> -> strength
    control_roles,     \* self.control_roles : set of ids
    weights,           \* self.weights : id -> number
    max_score,         \* local max_score of the running update_weights()
    pc,                \* position of update_weights(): idle/scoring/normalizing/done/failed
    idx,               \* position of the running for loop in its key sequence
    before,            \* history: self.weights when the current/last call began
    raw_scores,        \* history: id -> raw_score computed by the current/last call
    ret                \* last direct call of a pure method and its outcome

vars == <<qubit_layout, coherence_map, entanglement_map, control_roles,
          weights, max_score, pc, idx, before, raw_scores, ret>>

inputs == <<qubit_layout, coherence_map, entanglement_map, control_roles>>

----------------------------------------------------------------------------
(* Bounds of the enumerated inputs. *)

\* coherence values range over 0..MaxCoh
MaxCoh == 1
\* coupling strengths range over 1..MaxStrength
MaxStrength == 1

\* entity ids, in the insertion order of the dicts built from them
KeyOrder == <<"A", "B", "C">>
Ids == {KeyOrder[i] : i \in 1..Len(KeyOrder)}

\* coordinate vectors: pairwise squared distances are 0, 1 or 2
Points == {<<0, 0>>, <<1, 0>>, <<0, 1>>}

\* keys the coupling map may hold
PairKeys == {<<"A", "B">>, <<"B", "C">>, <<"A", "C">>}


----------------------------------------------------------------------------
(* Natural numbers of any size, as little-endian sequences of limbs below   *)
(* Base with no leading zero limb; <<>> is 0.  They carry the exact sums,   *)
(* products and quotients that are then rounded to a double.                *)

\* radix of a limb: products of two limbs stay within machine integers
Base == 32768
\* bits of a limb: Base = 2^LimbBits
LimbBits == 15

Limb(a, i) == IF i <= Len(a) THEN a[i] ELSE 0

RECURSIVE BStrip(_)
BStrip(a) ==
    IF a = <<>> THEN a
    ELSE IF a[Len(a)] = 0 THEN BStrip(SubSeq(a, 1, Len(a) - 1))
    ELSE a

RECURSIVE BFromNat(_)
BFromNat(n) == IF n = 0 THEN <<>> ELSE <<n % Base>> \o BFromNat(n \div Base)

RECURSIVE BAddAt(_, _, _, _)
BAddAt(a, b, i, carry) ==
    IF i > Len(a) /\ i > Len(b)
    THEN (IF carry = 0 THEN <<>> ELSE <<carry>>)
    ELSE LET t == Limb(a, i) + Limb(b, i) + carry
         IN  <<t % Base>> \o BAddAt(a, b, i + 1, t \div Base)
BAdd(a, b) == BAddAt(a, b, 1, 0)

\* a - b for a >= b
RECURSIVE BSubAt(_, _, _, _)
BSubAt(a, b, i, borrow) ==
    IF i > Len(a) THEN <<>>
    ELSE LET t == a[i] - Limb(b, i) - borrow
         IN  IF t < 0 THEN <<t + Base>> \o BSubAt(a, b, i + 1, 1)
             ELSE <<t>> \o BSubAt(a, b, i + 1, 0)
BSub(a, b) == BStrip(BSubAt(a, b, 1, 0))

\* -1, 0 or 1 as a < b, a = b or a > b
RECURSIVE BCmpAt(_, _, _)
BCmpAt(a, b, i) ==
    IF i = 0 THEN 0
    ELSE IF a[i] > b[i] THEN 1
    ELSE IF a[i] < b[i] THEN -1
    ELSE BCmpAt(a, b, i - 1)
BCmp(a, b) ==
    IF Len(a) > Len(b) THEN 1
    ELSE IF Len(a) < Len(b) THEN -1
    ELSE BCmpAt(a, b, Len(a))

\* a * k for a limb k
RECURSIVE BMulSmallAt(_, _, _, _)
BMulSmallAt(a, k, i, carry) ==
    IF i > Len(a) THEN (IF carry = 0 THEN <<>> ELSE <<carry>>)
    ELSE LET t == a[i] * k + carry
         IN  <<t % Base>> \o BMulSmallAt(a, k, i + 1, t \div Base)
BMulSmall(a, k) == IF k = 0 THEN <<>> ELSE BMulSmallAt(a, k, 1, 0)

\* a * Base^n
BShiftLimbs(a, n) == IF a = <<>> THEN a ELSE [i \in 1..n |-> 0] \o a

RECURSIVE BMulAt(_, _, _)
BMulAt(a, b, j) ==
    IF j > Len(b) THEN <<>>
    ELSE BAdd(BShiftLimbs(BMulSmall(a, b[j]), j - 1), BMulAt(a, b, j + 1))
BMul(a, b) == BMulAt(a, b, 1)

\* a * 2^n
BShl(a, n) == BShiftLimbs(BMulSmall(a, 2 ^ (n % LimbBits)), n \div LimbBits)

\* floor(a / 2^n)
BShr(a, n) ==
    LET drop == n \div LimbBits
        p == 2 ^ (n % LimbBits)
        x == IF drop >= Len(a) THEN <<>> ELSE SubSeq(a, drop + 1, Len(a))
    IN  BStrip([i \in 1..Len(x) |->
                   (x[i] \div p) + (Limb(x, i + 1) % p) * (Base \div p)])

RECURSIVE NatBitLen(_)
NatBitLen(n) == IF n = 0 THEN 0 ELSE 1 + NatBitLen(n \div 2)
BBitLen(a) ==
    IF a = <<>> THEN 0 ELSE LimbBits * (Len(a) - 1) + NatBitLen(a[Len(a)])

BOdd(a) == a # <<>> /\ a[1] % 2 = 1

\* the number of trailing zero bits of a > 0
RECURSIVE NatTrailingZeros(_)
NatTrailingZeros(n) == IF n % 2 = 1 THEN 0 ELSE 1 + NatTrailingZeros(n \div 2)
RECURSIVE BTrailingZeros(_)
BTrailingZeros(a) ==
    IF a[1] = 0 THEN LimbBits + BTrailingZeros(Tail(a))
    ELSE NatTrailingZeros(a[1])

\* the largest limb q with d * q <= r, given an estimate est >= q
RECURSIVE FixDigit(_, _, _)
FixDigit(d, r, est) ==
    IF BCmp(BMulSmall(d, est), r) > 0 THEN FixDigit(d, r, est - 1) ELSE est

\* long division of a by d, the top limb of d at least Base/2: limbs i..1 of a
\* are still to be brought down, r is the running remainder
RECURSIVE BDivAt(_, _, _, _)
BDivAt(a, d, i, r) ==
    IF i = 0 THEN [q |-> <<>>, r |-> r]
    ELSE LET n == Len(d)
             r1 == BStrip(<<a[i]>> \o r)
             est == IF Len(r1) < n THEN 0
                    ELSE LET e0 == (Limb(r1, n + 1) * Base + r1[n]) \div d[n]
                         IN  IF e0 > Base - 1 THEN Base - 1 ELSE e0
             digit == FixDigit(d, r1, est)
             rest == BDivAt(a, d, i - 1, BSub(r1, BMulSmall(d, digit)))
         IN  [q |-> rest.q \o <<digit>>, r |-> rest.r]
\* [q |-> floor(a / d), r |-> a mod d]
BDivMod(a, d) ==
    LET res == BDivAt(a, d, Len(a), <<>>)
    IN  [q |-> BStrip(res.q), r |-> res.r]

----------------------------------------------------------------------------
(* IEEE 754 binary64 arithmetic on non-negative values, round to nearest,   *)
(* ties to even.  A finite double is [k |-> "fin", m, e], the value m * 2^e *)
(* with m an odd natural of at most MantBits bits (or m = 0 and e = 0).     *)

\* bits of a double's significand
MantBits == 53

Abs(n) == IF n < 0 THEN -n ELSE n

Zero == [k |-> "fin", m |-> <<>>, e |-> 0]
Inf == [k |-> "inf", m |-> <<>>, e |-> 0]
NaN == [k |-> "nan", m |-> <<>>, e |-> 0]
Raise(x) == [k |-> x, m |-> <<>>, e |-> 0]

IsFin(x) == x.k = "fin"
IsNum(x) == x.k \in {"fin", "inf", "nan"}
IsErr(x) == ~IsNum(x)
IsZero(x) == IsFin(x) /\ x.m = <<>>

\* n * 2^e with the trailing zero bits of n moved into the exponent
Canon(n, e) ==
    LET tz == BTrailingZeros(n)
    IN  [k |-> "fin", m |-> BShr(n, tz), e |-> e + tz]

\* the double nearest to n * 2^e (or to a value just above it when sticky)
Round(n, e, sticky) ==
    LET len == BBitLen(n)
    IN  IF len = 0 THEN Zero
        ELSE IF len <= MantBits THEN Canon(n, e)
        ELSE LET r == len - MantBits
                 q == BShr(n, r)
                 c == BCmp(BSub(n, BShl(q, r)), BShl(<<1>>, r - 1))
                 up == c > 0 \/ (c = 0 /\ (sticky \/ BOdd(q)))
             IN  Canon(IF up THEN BAdd(q, <<1>>) ELSE q, e + r)

\* the double n * 2^e for a small natural n
Fin(n, e) == Round(BFromNat(n), e, FALSE)
Num(n) == Fin(n, 0)
One == Num(1)

\* x + y (operands are never negative here, so inf + y = inf)
Add(x, y) ==
    IF x.k = "nan" \/ y.k = "nan" THEN NaN
    ELSE IF x.k = "inf" \/ y.k = "inf" THEN Inf
    ELSE IF IsZero(x) THEN y
    ELSE IF IsZero(y) THEN x
    ELSE LET e == IF x.e < y.e THEN x.e ELSE y.e
         IN  Round(BAdd(BShl(x.m, x.e - e), BShl(y.m, y.e - e)), e, FALSE)

\* x * y (operands are never negative here; inf * 0 = nan).  A factor that is
\* a power of two only moves the exponent.
Mul(x, y) ==
    IF x.k = "nan" \/ y.k = "nan" THEN NaN
    ELSE IF x.k = "inf" \/ y.k = "inf"
         THEN (IF IsZero(x) \/ IsZero(y) THEN NaN ELSE Inf)
    ELSE IF IsZero(x) \/ IsZero(y) THEN Zero
    ELSE IF x.m = <<1>> THEN [k |-> "fin", m |-> y.m, e |-> x.e + y.e]
    ELSE IF y.m = <<1>> THEN [k |-> "fin", m |-> x.m, e |-> x.e + y.e]
    ELSE Round(BMul(x.m, y.m), x.e + y.e, FALSE)

\* x / y for numpy doubles: division by zero gives inf (nan for 0/0).  A
\* divisor that is a power of two only moves the exponent, and equal
\* significands give a power of two.  Otherwise the quotient of the
\* significands is taken to at least MantBits + 2 bits, and the divisor is
\* shifted to fill its top limb for the long division.
Div(x, y) ==
    IF x.k = "nan" \/ y.k = "nan" THEN NaN
    ELSE IF x.k = "inf" THEN (IF y.k = "inf" THEN NaN ELSE Inf)
    ELSE IF y.k = "inf" THEN Zero
    ELSE IF IsZero(y) THEN (IF IsZero(x) THEN NaN ELSE Inf)
    ELSE IF IsZero(x) THEN Zero
    ELSE IF y.m = <<1>> THEN [k |-> "fin", m |-> x.m, e |-> x.e - y.e]
    ELSE IF x.m = y.m THEN [k |-> "fin", m |-> <<1>>, e |-> x.e - y.e]
    ELSE LET s == MantBits + 3 + BBitLen(y.m) - BBitLen(x.m)
             t == LimbBits * Len(y.m) - BBitLen(y.m)
             qr == BDivMod(BShl(x.m, s + t), BShl(y.m, t))
         IN  Round(qr.q, x.e - y.e - s, qr.r # <<>>)

\* x > y; false whenever an operand is nan
Gt(x, y) ==
    IF x.k = "nan" \/ y.k = "nan" THEN FALSE
    ELSE IF y.k = "inf" THEN FALSE
    ELSE IF x.k = "inf" THEN TRUE
    ELSE IF IsZero(x) THEN FALSE
    ELSE IF IsZero(y) THEN TRUE
    ELSE LET tx == BBitLen(x.m) + x.e
             ty == BBitLen(y.m) + y.e
             e == IF x.e < y.e THEN x.e ELSE y.e
         IN  tx > ty \/ (tx = ty /\ BCmp(BShl(x.m, x.e - e), BShl(y.m, y.e - e)) > 0)

\* x == y of Python floats; nan equals nothing, itself included
PyEq(x, y) == x.k # "nan" /\ y.k # "nan" /\ x = y

Le(x, y) == Gt(y, x) \/ PyEq(x, y)

\* mutant of PyMax: min in place of max
PyMin(x, y) == IF Gt(x, y) THEN y ELSE x

\* the builtin max(x, y): y only when y > x
PyMax(x, y) == IF Gt(y, x) THEN y ELSE x

\* np.sqrt of a natural: exact for a perfect square; sqrt(2.0) is the double
\* 0x1.6a09e667f3bcdp+0 = 6369051672525773 * 2^-52
Sqrt(n) ==
    CASE \E r \in 0..n : r * r = n -> Num(CHOOSE r \in 0..n : r * r = n)
      [] n = 2 -> [k |-> "fin", m |-> <<15309, 19710, 633, 181>>, e |-> -52]

----------------------------------------------------------------------------
(* Helpers for dicts and their iteration order. *)

\* the Python value None, stored where a coherence value is expected
NoneVal == [k |-> "None", m |-> <<>>, e |-> 0]

EmptyDict == [q \in {} |-> Zero]

\* keys of dict m in insertion order
DictKeys(m) == SelectSeq(KeyOrder, LAMBDA q : q \in DOMAIN m)

\* mutant of SetItem: the dict is rebuilt with the one entry
SetItemRebuilding(m, key, v) == [q \in {key} |-> v]

\* m[key] = v
SetItem(m, key, v) ==
    [q \in DOMAIN m \cup {key} |-> IF q = key THEN v ELSE m[q]]

----------------------------------------------------------------------------
(* QuantumWeightModel: the pure methods, as functions of the model's fields. *)

\* mutant of Norm: the L1 (Manhattan) norm of the difference
NormL1(pos1, pos2) ==
    LET RECURSIVE SumAbs(_)
        SumAbs(i) == IF i = 0 THEN 0
                     ELSE Abs(pos1[i] - pos2[i]) + SumAbs(i - 1)
    IN  Num(SumAbs(Len(pos1)))

\* np.linalg.norm(np.array(pos1) - np.array(pos2)) for vectors of equal length
Norm(pos1, pos2) ==
    LET RECURSIVE SumSq(_)
        SumSq(i) == IF i = 0 THEN 0
                    ELSE (pos1[i] - pos2[i]) * (pos1[i] - pos2[i]) + SumSq(i - 1)
    IN  Sqrt(SumSq(Len(pos1)))

\* compute_proximity(q1, q2): layout[q1], layout[q2] raise KeyError on a missing key
compute_proximity(layout, q1, q2) ==
    IF q1 \notin DOMAIN layout \/ q2 \notin DOMAIN layout
    THEN Raise("KeyError")
    ELSE Norm(layout[q1], layout[q2])

\* 1 / d of line 26, tabulated for the distances between the points of Points
Distances == {Norm(p, q) : p, q \in Points}
Reciprocals == [d \in Distances |-> Div(One, d)]
Reciprocal(d) == IF d \in Distances THEN Reciprocals[d] ELSE Div(One, d)

\* sum(1 / self.compute_proximity(qubit_id, other)
\*     for other in self.qubit_layout if other != qubit_id)
RECURSIVE ProximitySum(_, _, _, _)
ProximitySum(layout, qubit_id, keys, acc) ==
    IF keys = <<>> THEN acc
    ELSE IF Head(keys) = qubit_id
         THEN ProximitySum(layout, qubit_id, Tail(keys), acc)
    ELSE LET dist == compute_proximity(layout, qubit_id, Head(keys))
         IN  IF IsErr(dist) THEN dist
             ELSE ProximitySum(layout, qubit_id, Tail(keys), Add(acc, Reciprocal(dist)))

proximity_score(layout, qubit_id) ==
    ProximitySum(layout, qubit_id, DictKeys(layout), Zero)

\* self.coherence_map.get(qubit_id, 0)
coherence_score(coh, qubit_id) ==
    IF qubit_id \in DOMAIN coh THEN coh[qubit_id] ELSE Zero

\* sum(v for (q1, q2), v in self.entanglement_map.items() if qubit_id in (q1, q2))
RECURSIVE EntanglementSum(_, _, _)
EntanglementSum(ent, qubit_id, pairs) ==
    IF pairs = {} THEN Zero
    ELSE LET p == CHOOSE x \in pairs : TRUE
             rest == EntanglementSum(ent, qubit_id, pairs \ {p})
         IN  IF qubit_id = p[1] \/ qubit_id = p[2]
             THEN Add(Num(ent[p]), rest)
             ELSE rest

entanglement_score(ent, qubit_id) == EntanglementSum(ent, qubit_id, DOMAIN ent)

\* 1.5 if qubit_id in self.control_roles else 1.0
control_bonus(ctrl, qubit_id) ==
    IF qubit_id \in ctrl THEN Fin(3, -1) ELSE One

\* calculate_weight(qubit_id)
calculate_weight(layout, coh, ent, ctrl, qubit_id) ==
    LET prox == proximity_score(layout, qubit_id)
        c == coherence_score(coh, qubit_id)
    IN  IF IsErr(prox) THEN prox
        ELSE IF c = NoneVal THEN Raise("TypeError")
        ELSE Mul(Mul(Add(prox, entanglement_score(ent, qubit_id)), c),
                 control_bonus(ctrl, qubit_id))

----------------------------------------------------------------------------
(* Inputs of the constructor. *)

\* Ids are opaque, so the layout's key set is taken to be a prefix of KeyOrder;
\* the other inputs range over families closed under renaming of ids.
LayoutKeySets == {{KeyOrder[i] : i \in 1..n} : n \in 0..Len(KeyOrder)}

Layouts == UNION {[S -> Points] : S \in LayoutKeySets}

CoherenceValues == {Num(c) : c \in 0..MaxCoh} \cup {NoneVal}
CoherenceMaps == UNION {[S -> CoherenceValues] : S \in SUBSET Ids}

\* coupling maps with at most one pair
EntanglementMaps ==
    UNION {[S -> 1..MaxStrength] : S \in {{}} \cup {{p} : p \in PairKeys}}

\* control-role sets with at most one id
ControlSets == {{}} \cup {{q} : q \in Ids}

NoCall == [op |-> "none", arg |-> <<>>, val |-> Zero]

\* __init__: the four inputs are stored, self.weights = {}
Init ==
    /\ qubit_layout \in Layouts
    /\ coherence_map \in CoherenceMaps
    /\ entanglement_map \in EntanglementMaps
    /\ control_roles \in ControlSets
    /\ weights = EmptyDict
    /\ max_score = Zero
    /\ pc = "idle"
    /\ idx = 0
    /\ before = EmptyDict
    /\ raw_scores = EmptyDict
    /\ ret = NoCall

----------------------------------------------------------------------------
(* update_weights(), one dict write per step.  idx is 0 outside the loops. *)

\* self.calculate_weight(qubit) on the model's own fields
Score(qubit) ==
    calculate_weight(qubit_layout, coherence_map, entanglement_map,
                     control_roles, qubit)

\* mutant of Normalized: the divisor is off by one
NormalizedByMaxPlusOne(w, m) == Div(w, Add(m, One))

\* self.weights[qubit] /= max_score
Normalized(w, m) == Div(w, m)

\* position after the scoring loop: "if max_score > 0" enters the second loop
AfterScoring(m) ==
    IF Gt(m, Zero) THEN "normalizing" ELSE "done"

\* the call begins: max_score = 0, and the first loop is entered
UpdateBegin ==
    /\ pc \in {"idle", "done", "failed"}
    /\ before' = weights
    /\ raw_scores' = EmptyDict
    /\ max_score' = Zero
    /\ IF DictKeys(qubit_layout) = <<>>
       THEN idx' = 0 /\ pc' = AfterScoring(Zero)
       ELSE idx' = 1 /\ pc' = "scoring"
    /\ UNCHANGED <<inputs, weights, ret>>

\* one iteration of "for qubit in self.qubit_layout"
ScoreStep ==
    /\ pc = "scoring"
    /\ LET keys == DictKeys(qubit_layout)
           qubit == keys[idx]
       IN  \E score \in {Score(qubit)} :   \* evaluated once
           IF IsErr(score)
           THEN \* the exception leaves update_weights()
                /\ pc' = "failed"
                /\ idx' = 0
                /\ UNCHANGED <<weights, max_score, raw_scores>>
           ELSE \E w \in {SetItem(weights, qubit, score)} :
                \E m \in {PyMax(max_score, w[qubit])} :
                    /\ weights' = w
                    /\ raw_scores' = SetItem(raw_scores, qubit, score)
                    /\ max_score' = m
                    /\ IF idx < Len(keys)
                       THEN idx' = idx + 1 /\ pc' = "scoring"
                       ELSE IF AfterScoring(m) = "done"
                            THEN idx' = 0 /\ pc' = "done"
                            ELSE idx' = 1 /\ pc' = "normalizing"
    /\ UNCHANGED <<inputs, before, ret>>

\* one iteration of "for qubit in self.weights"
NormStep ==
    /\ pc = "normalizing"
    /\ LET keys == DictKeys(weights)
           qubit == keys[idx]
       IN  /\ weights' = SetItem(weights, qubit, Normalized(weights[qubit], max_score))
           /\ IF idx < Len(keys)
              THEN idx' = idx + 1 /\ pc' = "normalizing"
              ELSE idx' = 0 /\ pc' = "done"
    /\ UNCHANGED <<inputs, max_score, before, raw_scores, ret>>

\* get_weights() returns self.weights itself, not a copy: what a caller reads
\* through the returned dict, now or later, is the current self.weights
get_weights == weights

\* a call of get_weights(): no field changes
GetWeights == UNCHANGED vars

Next == UpdateBegin \/ ScoreStep \/ NormStep \/ GetWeights

Spec == Init /\ [][Next]_vars

----------------------------------------------------------------------------
(* Direct calls of the pure methods on a freshly constructed model. *)

CallCalculateWeight(id) ==
    /\ pc = "idle" /\ ret = NoCall
    /\ ret' = [op |-> "calculate_weight", arg |-> <<id>>, val |-> Score(id)]
    /\ UNCHANGED <<inputs, weights, max_score, pc, idx, before, raw_scores>>

CallComputeProximity(q1, q2) ==
    /\ pc = "idle" /\ ret = NoCall
    /\ ret' = [op |-> "compute_proximity", arg |-> <<q1, q2>>,
               val |-> compute_proximity(qubit_layout, q1, q2)]
    /\ UNCHANGED <<inputs, weights, max_score, pc, idx, before, raw_scores>>

NextCalc ==
    \/ \E id \in Ids : CallCalculateWeight(id)
    \/ \E q1, q2 \in Ids : CallComputeProximity(q1, q2)

SpecCalc == Init /\ [][NextCalc]_vars

----------------------------------------------------------------------------
(* Vocabulary of the properties. *)

\* the spec's valid input: pairwise distinct coordinates, numeric coherence
\* (coherence and coupling values are non-negative in every enumerated input)
DistinctCoordinates ==
    \A p, q \in DOMAIN qubit_layout :
        p # q => qubit_layout[p] # qubit_layout[q]
ValidInput ==
    /\ DistinctCoordinates
    /\ \A q \in DOMAIN coherence_map : coherence_map[q] # NoneVal

\* the maximum raw score over the entities of Layout is strictly positive
\* (after a returned call raw_scores holds the raw score of every entity)
MaxRawPositive == \E q \in DOMAIN raw_scores : Gt(raw_scores[q], Zero)

\* q's raw score is the maximum over Layout
HasMaxRaw(q) == \A o \in DOMAIN raw_scores : ~Gt(raw_scores[o], raw_scores[q])

\* the recorded raw scores are those of calculate_weight, for every entity once
\* the call has returned
RawScoresAreCalculateWeight ==
    /\ \A q \in DOMAIN raw_scores : raw_scores[q] = Score(q)
    /\ pc = "done" => DOMAIN raw_scores = DOMAIN qubit_layout

\* the mapping a complete pass publishes, as a function of the inputs
RECURSIVE MaxOver(_, _)
MaxOver(raw, keys) ==
    IF keys = <<>> THEN Zero
    ELSE LET n == Len(keys)
         IN  PyMax(MaxOver(raw, SubSeq(keys, 1, n - 1)), raw[keys[n]])
PassResult ==
    LET raw == [q \in DOMAIN qubit_layout |-> Score(q)]
        m == MaxOver(raw, DictKeys(qubit_layout))
    IN  IF Gt(m, Zero) THEN [q \in DOMAIN raw |-> Div(raw[q], m)] ELSE raw
PassRaises == \E q \in DOMAIN qubit_layout : IsErr(Score(q))

\* the scenario of the spec's first example
ScenarioABC ==
    /\ qubit_layout = [q \in Ids |-> CASE q = "A" -> <<0, 0>>
                                       [] q = "B" -> <<1, 0>>
                                       [] q = "C" -> <<0, 1>>]
    /\ coherence_map = [q \in Ids |-> One]
    /\ entanglement_map \in [{} -> 1..MaxStrength]
    /\ control_roles = {}

----------------------------------------------------------------------------
(* Properties of update_weights() and get_weights(), checked under Spec. *)

\* C1: on valid input, after update_weights() returns, every weight lies in
\* [0, 1] when the maximum raw score is positive, and every weight is zero
\* when the maximum raw score is zero.
C1_WeightsInUnitInterval ==
    (pc = "done" /\ ValidInput) =>
        IF MaxRawPositive
        THEN \A q \in DOMAIN weights : Le(Zero, weights[q]) /\ Le(weights[q], One)
        ELSE \A q \in DOMAIN weights : PyEq(weights[q], Zero)

\* C1 witness: a returned pass on valid input that left a weight strictly
\* between 0 and 1.
C1_Witness ==
    /\ pc = "done" /\ ValidInput /\ MaxRawPositive
    /\ \E q \in DOMAIN weights : Gt(weights[q], Zero) /\ Gt(One, weights[q])

\* C2: on valid input with a positive maximum raw score, after update_weights()
\* returns, some entity has weight exactly 1.0: every entity whose raw score is
\* the maximum.
C2_MaxHasWeightOne ==
    (pc = "done" /\ ValidInput /\ MaxRawPositive) =>
        /\ \E q \in DOMAIN qubit_layout : PyEq(weights[q], One)
        /\ \A q \in DOMAIN qubit_layout : HasMaxRaw(q) => PyEq(weights[q], One)

\* C2 witness: a returned pass where one entity has weight 1.0 and another a
\* smaller positive weight.
C2_Witness ==
    /\ pc = "done" /\ ValidInput /\ MaxRawPositive
    /\ \E p, q \in DOMAIN qubit_layout :
          /\ PyEq(weights[p], One)
          /\ Gt(One, weights[q]) /\ Gt(weights[q], Zero)

\* C3: after any successful call of update_weights(), the key set of Weights is
\* exactly the key set of Layout.
C3_KeySetEqualsLayout ==
    pc = "done" => DOMAIN weights = DOMAIN qubit_layout

\* C3 witness: a second successful call has returned on a three-entity layout.
C3_Witness ==
    /\ pc = "done" /\ before # EmptyDict
    /\ Cardinality(DOMAIN qubit_layout) = 3
    /\ DOMAIN weights = DOMAIN qubit_layout

\* C4: (as claimed) with coincident coordinates the call either raises or uses
\* a capped finite proximity term: no weight that update_weights() leaves in
\* Weights is infinite or NaN.
C4_NoInfOrNaNStored ==
    pc \in {"done", "failed"} => \A q \in DOMAIN weights : IsFin(weights[q])

\* C5: (as claimed) after a call of update_weights() that failed with an error,
\* Weights equals the mapping before the call.  Stated on layouts with distinct
\* coordinates, where no infinite or NaN score is involved.
C5_FailedPassKeepsWeights ==
    (pc = "failed" /\ DistinctCoordinates) => weights = before

\* C6: (as claimed) a reader of get_weights() at any point of a running pass
\* sees the complete mapping from before the pass or the complete normalized
\* mapping from after it.
C6_AtomicPublication ==
    pc \in {"scoring", "normalizing"} =>
        \/ get_weights = before
        \/ ~PassRaises /\ get_weights = PassResult

\* C9: (as claimed) in the scenario A:(0,0), B:(1,0), C:(0,1) with coherence 1,
\* no coupling and no control roles, raw(A) = 2, the three raw scores are
\* equal, and all three weights are 1.0 after update_weights().
C9_AllWeightsOne ==
    (ScenarioABC /\ pc = "done") =>
        /\ PyEq(Score("A"), Num(2))
        /\ PyEq(Score("A"), Score("B")) /\ PyEq(Score("B"), Score("C"))
        /\ \A q \in Ids : PyEq(weights[q], One)

\* the doubles 1.7071067811865475 (1 + 1/sqrt 2, rounded) and its half,
\* 0.8535533905932737
RawBC == [k |-> "fin", m |-> <<20211, 13119, 8350, 109>>, e |-> -51]
WeightBC == [k |-> "fin", m |-> <<20211, 13119, 8350, 109>>, e |-> -52]

\* C9 (amended): in that scenario raw(A) = 2, raw(B) = raw(C) = 1 + 1/sqrt 2
\* (the double 1.7071067811865475), which is less than raw(A), and after
\* update_weights() the weight of A is 1.0 and the weights of B and C are both
\* raw(B)/2 (the double 0.8535533905932737), less than 1.0.
C9_OnlyAHasWeightOne ==
    ScenarioABC =>
        /\ PyEq(Score("A"), Num(2))
        /\ PyEq(Score("B"), RawBC) /\ PyEq(Score("C"), RawBC)
        /\ Gt(Score("A"), Score("B"))
        /\ pc = "done" =>
              /\ PyEq(weights["A"], One)
              /\ PyEq(weights["B"], WeightBC) /\ PyEq(weights["C"], WeightBC)
              /\ Gt(One, weights["B"])

\* C9 witness: update_weights() has returned in the scenario.
C9_Witness == ScenarioABC /\ pc = "done"

\* Cross-check of the stepwise pass against its functional description: a
\* returned pass leaves exactly PassResult.
PassMatchesResult ==
    pc = "done" => ~PassRaises /\ weights = PassResult

----------------------------------------------------------------------------
(* Properties of the pure methods, checked under SpecCalc. *)

CalledCalculateWeight == ret.op = "calculate_weight"
CalledComputeProximity == ret.op = "compute_proximity"

\* C7: (as claimed) calculate_weight(id) returns 0 for an entity of Layout whose
\* coherence is 0 or that is absent from the coherence map, whatever the
\* positions and couplings.
C7_ZeroCoherenceZeroScore ==
    (/\ CalledCalculateWeight
     /\ ret.arg[1] \in DOMAIN qubit_layout
     /\ coherence_score(coherence_map, ret.arg[1]) = Zero)
        => PyEq(ret.val, Zero)

\* C7 restricted to layouts with pairwise distinct coordinates.
ZeroCoherenceZeroScoreOnDistinct ==
    (/\ CalledCalculateWeight /\ DistinctCoordinates
     /\ ret.arg[1] \in DOMAIN qubit_layout
     /\ coherence_score(coherence_map, ret.arg[1]) = Zero)
        => PyEq(ret.val, Zero)

\* the relation of C8 between this model's returned score and the score of the
\* model that differs only in having control-role set ctrl2
BonusRelation(ctrl2) ==
    LET id == ret.arg[1]
        other == calculate_weight(qubit_layout, coherence_map, entanglement_map,
                                  ctrl2, id)
    IN  /\ (id \in control_roles /\ id \notin ctrl2)
              => PyEq(ret.val, Mul(Fin(3, -1), other))
        /\ ((id \in control_roles) <=> (id \in ctrl2))
              => PyEq(ret.val, other)

\* C8: (as claimed) between two models differing only in control_roles, the raw
\* score of an id that is a control role in the first only is exactly 1.5 times
\* its raw score in the second, and an id with the same membership in both has
\* equal raw scores.
C8_ControlBonusIsOneAndAHalf ==
    (CalledCalculateWeight /\ IsNum(ret.val)) =>
        \A ctrl2 \in SUBSET Ids : BonusRelation(ctrl2)

\* C8 restricted to layouts with pairwise distinct coordinates.
ControlBonusOnDistinct ==
    (CalledCalculateWeight /\ IsNum(ret.val) /\ DistinctCoordinates) =>
        \A ctrl2 \in SUBSET Ids : BonusRelation(ctrl2)

\* C10: (as claimed) compute_proximity(q1, q2) raises a lookup error when q1 or
\* q2 is no key of Layout, and calculate_weight(id) raises a lookup error when
\* id is no key of Layout, for every Layout, the empty one included.
C10_AbsentIdRaisesLookupError ==
    /\ (/\ CalledComputeProximity
        /\ (ret.arg[1] \notin DOMAIN qubit_layout \/ ret.arg[2] \notin DOMAIN qubit_layout))
          => ret.val.k = "KeyError"
    /\ (CalledCalculateWeight /\ ret.arg[1] \notin DOMAIN qubit_layout)
          => ret.val.k = "KeyError"

\* C10 restricted to non-empty layouts, and compute_proximity on any layout.
AbsentIdRaisesOnNonEmptyLayout ==
    /\ (/\ CalledComputeProximity
        /\ (ret.arg[1] \notin DOMAIN qubit_layout \/ ret.arg[2] \notin DOMAIN qubit_layout))
          => ret.val.k = "KeyError"
    /\ (/\ CalledCalculateWeight /\ ret.arg[1] \notin DOMAIN qubit_layout
        /\ DOMAIN qubit_layout # {})
          => ret.val.k = "KeyError"

====
